---- MODULE Spec2Model ----
(***************************************************************************)
(* State-machine model of the language-learning chat application:         *)
(*   - App            (src/types.ts, lines 55-128): the view state machine *)
(*   - generateScenario, validateGrammar, evaluatePronunciation,           *)
(*     generateSpeech (src/services/geminiService.ts)                      *)
(*   - ChatInterface  (src/unnamed/part_001): streaming session            *)
(*     coordinator, transcript assembly, recording capture, playback       *)
(*     scheduler, annotation callbacks, effect cleanup.                    *)
(*                                                                         *)
(* Conventions.                                                            *)
(*   - A JavaScript string is a sequence of one-character strings; the     *)
(*     empty string is <<>>, which is falsy exactly as in the source.      *)
(*   - An optional value (null / undefined) is <<>>, a present value v is  *)
(*     <<v>>.                                                              *)
(*   - A message id is the number Date.now() returned when the message was *)
(*     created (the source stores its decimal string, an injective         *)
(*     rendering); the literal id 'init-1' of the greeting is InitMsgId,   *)
(*     a value the clock never takes.                                     *)
(*   - A React state setter is applied in the step that calls it; updater  *)
(*     functions run in the order they were queued. After the effect's     *)
(*     cleanup has run, the state variables keep recording what the        *)
(*     setters are called with.                                            *)
(*   - Each handler runs to its first suspension point (await) atomically; *)
(*     every continuation after an await is a separate action.             *)
(***************************************************************************)
EXTENDS Integers, Sequences, FiniteSets, TLC

(***************************************************************************)
(* Bounds of the model.                                                    *)
(***************************************************************************)
MaxMsgs == 4        \* messages in the list, the greeting included
MaxTrans == 2       \* characters of a transcription buffer and of a message
MaxClock == 2       \* largest value Date.now() takes
MaxStarts == 2      \* startRecording invocations over the life of a screen
MaxFrames == 2      \* frames held by the accumulation buffer
MaxCalls == 1       \* annotation calls of one kind in flight at a time
MaxSent == 2        \* items sent to the session

(***************************************************************************)
(* Program constants.                                                      *)
(***************************************************************************)
InitMsgId == 0            \* id: 'init-1'
MinGrammarLen == 2        \* text.length < 2 returns
PrefixLen == 10           \* userText.substring(0, 10)
PcmScale == 32768         \* data[i] * 32768
Int16Mod == 65536         \* width of an Int16Array element
ByteMod == 256            \* width of a Uint8Array element

\* Resolution of the model's samples: the sample value u / SampleUnit, so
\* that data[i] * 32768 is u / 2 and half-steps of the product exist.
SampleUnit == 2 * PcmScale

(***************************************************************************)
(* Strings.                                                                *)
(***************************************************************************)
Min(a, b) == IF a < b THEN a ELSE b
Max(a, b) == IF a > b THEN a ELSE b

IsBlankChar(c) == c = " "

RECURSIVE TrimStart(_)
TrimStart(s) ==
    IF s # <<>> /\ IsBlankChar(Head(s)) THEN TrimStart(Tail(s)) ELSE s

RECURSIVE TrimEnd(_)
TrimEnd(s) ==
    IF s # <<>> /\ IsBlankChar(s[Len(s)])
    THEN TrimEnd(SubSeq(s, 1, Len(s) - 1))
    ELSE s

\* String.prototype.trim
Trim(s) == TrimEnd(TrimStart(s))

\* String.prototype.substring(0, n)
Substring0(s, n) == SubSeq(s, 1, Min(n, Len(s)))

\* String.prototype.includes
Includes(s, sub) ==
    \E i \in 0..(Len(s) - Len(sub)) : SubSeq(s, i + 1, i + Len(sub)) = sub

(***************************************************************************)
(* Inputs.                                                                 *)
(***************************************************************************)
OutFrags == {<<"a">>}                       \* partial agent transcripts
InFrags == {<<"u">>}                        \* partial user transcripts
InputTexts == {<<" ">>, <<"x", "y", " ">>}  \* values typed into the input box
\* Captured frames. A sample is given in units of 1/65536, so that
\* sample * 32768 = units / 2: 65536 is full scale +1.0, 3 is 1.5 / 32768.
Frames == {<<3>>, <<65536, -3>>}
\* What the AI service answers to one generateContent call.
Responses == {"throws", "notext", "malformed", "negative", "positive"}

(***************************************************************************)
(* Audio codec helpers (part_001, lines 16-61).                            *)
(***************************************************************************)
\* Truncation toward zero of n / d, d > 0 (the ToNumber -> ToInt16 step).
TruncDiv(n, d) == IF n >= 0 THEN n \div d ELSE -((-n) \div d)

\* Storing a number into an Int16Array element: truncate, wrap modulo 2^16.
ToInt16(x) == ((x + Int16Mod \div 2) % Int16Mod) - Int16Mod \div 2

\* int16[i] = data[i] * 32768, for the sample u / SampleUnit: the product
\* is u / (SampleUnit / 32768).
EncodeSample(u) == ToInt16(TruncDiv(u, SampleUnit \div PcmScale))

\* The two bytes of an Int16Array element as a Uint8Array sees them.
Int16Bytes(n) ==
    LET w == n % Int16Mod IN <<w % ByteMod, w \div ByteMod>>

RECURSIVE PcmBytes(_)
PcmBytes(data) ==
    IF data = <<>> THEN <<>>
    ELSE Int16Bytes(EncodeSample(Head(data))) \o PcmBytes(Tail(data))

\* createBlob(data).data. btoa and atob are the platform's mutually inverse
\* base64 routines; a base64 string is represented by the bytes it carries.
createBlob(data) == PcmBytes(data)

\* decode(base64)
decode(base64) == base64

\* new Int16Array(data.buffer): the elements of a little-endian byte buffer.
RECURSIVE Int16View(_)
Int16View(bytes) ==
    IF Len(bytes) < 2 THEN <<>>
    ELSE LET w == bytes[1] + ByteMod * bytes[2]
         IN  <<IF w >= Int16Mod \div 2 THEN w - Int16Mod ELSE w>>
             \o Int16View(SubSeq(bytes, 3, Len(bytes)))

\* decodeAudioData(data).getChannelData(0), each sample in units of
\* 1 / SampleUnit: dataInt16[i] / 32768.0
decodeAudioData(data) ==
    LET v == Int16View(data)
    IN  [i \in 1..Len(v) |-> v[i] * (SampleUnit \div PcmScale)]

\* merged: the chunks flattened in order (part_001, lines 415-421).
RECURSIVE Flatten(_)
Flatten(chunks) ==
    IF chunks = <<>> THEN <<>> ELSE Head(chunks) \o Flatten(Tail(chunks))

(***************************************************************************)
(* Messages (types.ts, lines 35-44).                                       *)
(***************************************************************************)
NewMessage(id, role, text, streaming) ==
    [id |-> id, role |-> role, text |-> text, isStreaming |-> streaming,
     audioData |-> <<>>, correction |-> <<>>, pronunciation |-> <<>>]

\* prev.map(m => m.id === id ? { ...m, [field]: value } : m)
SetAudio(prev, id, value) ==
    [i \in DOMAIN prev |->
        IF prev[i].id = id THEN [prev[i] EXCEPT !.audioData = value]
        ELSE prev[i]]

SetPronunciation(prev, id, value) ==
    [i \in DOMAIN prev |->
        IF prev[i].id = id THEN [prev[i] EXCEPT !.pronunciation = <<value>>]
        ELSE prev[i]]

SetCorrection(prev, id, value) ==
    [i \in DOMAIN prev |->
        IF prev[i].id = id THEN [prev[i] EXCEPT !.correction = <<value>>]
        ELSE prev[i]]

\* A test of the last message that forgets isStreaming.
LastHasRole(prev, role) ==
    /\ prev # <<>>
    /\ prev[Len(prev)].role = role

\* lastMsg && lastMsg.role === role && lastMsg.isStreaming
LastIsOpen(prev, role) ==
    /\ prev # <<>>
    /\ prev[Len(prev)].role = role
    /\ prev[Len(prev)].isStreaming

\* [...prev.slice(0, -1), { ...lastMsg, text: lastMsg.text + t }]
AppendToLast(prev, t) == [prev EXCEPT ![Len(prev)].text = @ \o t]

\* The setMessages updater of the transcription branch (lines 249-293).
\* A new turn is opened only by looking at the LAST message of the list.
StreamUpdater(prev, outputText, inputText0, recording, t) ==
    IF outputText # <<>>
    THEN IF LastIsOpen(prev, "model")
         THEN AppendToLast(prev, outputText)
         ELSE Append(prev, NewMessage(t, "model", outputText, TRUE))
    ELSE IF inputText0 # <<>> /\ recording
         THEN IF LastIsOpen(prev, "user")
              THEN AppendToLast(prev, inputText0)
              ELSE Append(prev, NewMessage(t, "user", inputText0, TRUE))
         ELSE prev

\* Whether that updater takes the "start new user message from speech"
\* branch, the one that assigns lastUserMessageIdRef (lines 280-282).
OpensUserTurn(prev, outputText, inputText0, recording) ==
    /\ outputText = <<>>
    /\ inputText0 # <<>>
    /\ recording
    /\ ~LastIsOpen(prev, "user")

\* prev.map(m => m.isStreaming ? { ...m, isStreaming: false } : m)
FinalizeOnlyLast(prev) ==
    IF prev # <<>> /\ prev[Len(prev)].isStreaming
    THEN [prev EXCEPT ![Len(prev)].isStreaming = FALSE]
    ELSE prev
Finalize(prev) ==
    [i \in DOMAIN prev |->
        IF prev[i].isStreaming THEN [prev[i] EXCEPT !.isStreaming = FALSE]
        ELSE prev[i]]

\* [...currentMsgs].reverse().find(m => m.role === 'user' &&
\*     m.text.includes(userText.substring(0, 10)))  -- as <<>> or <<id>>
FindLastUserMsg(msgs, userText) ==
    LET hits == {i \in DOMAIN msgs :
                    /\ msgs[i].role = "user"
                    /\ Includes(msgs[i].text, Substring0(userText, PrefixLen))}
    IN  IF hits = {} THEN <<>>
        ELSE <<msgs[CHOOSE i \in hits : \A j \in hits : j <= i].id>>

(***************************************************************************)
(* Service wrappers (geminiService.ts).                                    *)
(***************************************************************************)
\* A Scenario (types.ts, lines 12-20). Its initialMessage, which becomes a
\* message text, is a character sequence; the other fields are only copied.
NewScenario(title, descr, userRole, aiRole, location, instr, initial) ==
    [title |-> title, description |-> descr, userRole |-> userRole,
     aiRole |-> aiRole, location |-> location, systemInstruction |-> instr,
     initialMessage |-> initial]

FallbackTitle == "Cafe Encounter"
FallbackScenario ==
    NewScenario(FallbackTitle,
        "You are ordering a coffee in a busy cafe.", "Customer", "Barista",
        "Cafe",
        "You are a friendly female barista. Speak only in the target language. Use feminine grammatical forms.",
        <<"H", "e", "l", "l", "o", "!", " ", "W", "h", "a", "t", " ", "c",
          "a", "n", " ", "I", " ", "g", "e", "t", " ", "f", "o", "r", " ",
          "y", "o", "u", " ", "t", "o", "d", "a", "y", "?">>)

\* Two scenarios the service can answer with: one with an opening line,
\* one without.
MarketScenario ==
    NewScenario("Market", "You are buying fruit.", "Buyer", "Seller",
                "Market", "You are a fruit seller.", <<"M">>)
SilentScenario ==
    NewScenario("Silent", "You wait for a bus.", "Traveller", "Driver",
                "Bus stop", "You are a bus driver.", <<>>)

\* The template string of App.handleLanguageSelect (types.ts, line 77), as
\* the pieces it concatenates.
ContextOf(sc) ==
    <<sc.title, " - ", sc.description, " (Location: ", sc.location,
      ", Role: ", sc.aiRole, ")">>

\* generateScenario (lines 22-88): the parsed response, or the fallback when
\* the call throws, yields no text, or JSON.parse throws.
generateScenarioNoFallback(response, parsed) == parsed
generateScenario(response, parsed) ==
    IF response = "throws" THEN FallbackScenario
    ELSE IF response = "notext" THEN FallbackScenario
    ELSE IF response = "malformed" THEN FallbackScenario
    ELSE parsed

\* validateGrammar (lines 102-130): <<>> for null, else the Correction.
validateGrammar(response, text) ==
    IF response \in {"throws", "notext", "malformed"} THEN <<>>
    ELSE <<[original |-> text, isCorrect |-> (response = "positive")]>>

\* An evaluatePronunciation that takes a malformed answer for feedback.
evaluatePronunciationUnchecked(response, base64Pcm) ==
    IF response \in {"throws", "notext"} THEN <<>>
    ELSE <<[score |-> IF response = "positive" THEN 100 ELSE 0]>>

\* evaluatePronunciation (lines 183-222): <<>> for null, else the feedback.
evaluatePronunciation(response, base64Pcm) ==
    IF response \in {"throws", "notext", "malformed"} THEN <<>>
    ELSE <<[score |-> IF response = "positive" THEN 100 ELSE 0]>>

(***************************************************************************)
(* State.                                                                  *)
(***************************************************************************)
VARIABLES
    \* App (types.ts, lines 56-60)
    view, user, selectedLanguage, scenario, previousScenarioContext,
    genCall,            \* handleLanguageSelect suspended at generateScenario
    \* ChatInterface: React state (part_001, lines 64-69)
    messages, inputText, isRecording, isConnected, connectionError,
    playingMessageId,
    \* ChatInterface: refs (lines 72-86)
    session,            \* sessionRef: "null", or the state of its promise
    audioContext,       \* audioContextRef: "null" or the context's state
    nextStartTime, inputContextRef, streamRef, processorRef, isRecordingRef,
    userAudioChunks, lastUserMessageId, currentInputTrans,
    currentOutputTrans,
    cleanup,            \* the effect's local flag (line 144)
    \* The platform and the calls in flight
    now,                \* Date.now()
    currentTime,        \* ctx.currentTime of the output context
    starts,             \* startRecording invocations: where each one stands
    openContexts,       \* input AudioContexts created and not closed
    liveStreams,        \* microphone streams whose tracks are not stopped
    processors,         \* connected ScriptProcessors, each with its context
    grammarCalls,       \* handleGrammarCheck timers / validateGrammar calls
    pronCalls,          \* evaluatePronunciation calls, in the order started
    greeting,           \* where playGreeting stands, and its audio's duration
    scheduled,          \* live fragments handed to source.start
    replays,            \* handlePlayAudio invocations that have not ended
    pendingSends,       \* handleSendMessage suspended at resume()
    sent,               \* what the session has been sent, in order
    \* History, read by no action
    arrived             \* per role, the partial transcripts that arrived
                        \* since the last turn-complete marker, concatenated

appVars == <<view, user, selectedLanguage, scenario, previousScenarioContext,
             genCall>>
uiVars == <<inputText, isConnected, connectionError, playingMessageId>>
transVars == <<messages, lastUserMessageId, currentInputTrans,
               currentOutputTrans, arrived>>
recVars == <<isRecording, isRecordingRef, inputContextRef, streamRef,
             processorRef, userAudioChunks, starts, openContexts,
             liveStreams, processors>>
playVars == <<nextStartTime, currentTime, greeting, scheduled, replays>>
callVars == <<grammarCalls, pronCalls>>
envVars == <<session, audioContext, cleanup, now, pendingSends, sent>>

vars == <<appVars, uiVars, transVars, recVars, playVars, callVars, envVars>>

\* Names typed into the login form (Login.tsx, line 11).
LoginNames == {<<" ">>, <<"a">>, <<" ", "b">>}
\* SUPPORTED_LANGUAGES (constants.ts, lines 3-21), by name.
Languages ==
    {"Spanish", "French", "German", "Italian", "Japanese", "Korean",
     "Chinese (Mandarin)", "Portuguese", "Hindi", "Bengali", "Marathi",
     "Tamil", "Telugu", "Gujarati", "Kannada", "Malayalam"}
\* What JSON.parse makes of the service's answers.
ParsedScenarios == {MarketScenario, SilentScenario}

NoneArrived == [model |-> <<>>, user |-> <<>>]

\* playGreeting at position pc, holding decoded audio of duration dur.
GreetingAt(pc, dur) == [pc |-> pc, dur |-> dur]

\* The component's state and refs as useState / useRef create them
\* (lines 64-86), before the mount effect has run.
Unmounted ==
    /\ messages = <<>>
    /\ inputText = <<>>
    /\ isRecording = FALSE
    /\ isConnected = FALSE
    /\ connectionError = <<>>
    /\ playingMessageId = <<>>
    /\ session = "null"
    /\ audioContext = "null"
    /\ nextStartTime = 0
    /\ inputContextRef = <<>>
    /\ streamRef = <<>>
    /\ processorRef = <<>>
    /\ isRecordingRef = FALSE
    /\ userAudioChunks = <<>>
    /\ lastUserMessageId = <<>>
    /\ currentInputTrans = <<>>
    /\ currentOutputTrans = <<>>
    /\ cleanup = FALSE
    /\ now = 1
    /\ currentTime = 0
    /\ starts = <<>>
    /\ openContexts = {}
    /\ liveStreams = {}
    /\ processors = {}
    /\ grammarCalls = {}
    /\ pronCalls = <<>>
    /\ greeting = GreetingAt("none", 0)
    /\ scheduled = <<>>
    /\ replays = <<>>
    /\ pendingSends = <<>>
    /\ sent = <<>>
    /\ arrived = NoneArrived

chatVars == <<uiVars, transVars, recVars, playVars, callVars, envVars>>

(***************************************************************************)
(* App (types.ts, lines 55-128).                                           *)
(***************************************************************************)
InitApp ==
    /\ view = "login"
    /\ user = <<>>
    /\ selectedLanguage = <<>>
    /\ scenario = <<>>
    /\ previousScenarioContext = <<>>
    /\ genCall = <<>>
    /\ Unmounted

\* Login.handleSubmit (Login.tsx, lines 13-18) and handleLogin (lines 62-65).
handleLogin(name) ==
    /\ view = "login"
    /\ IF Trim(name) # <<>>
       THEN /\ user' = <<[name |-> Trim(name)]>>
            /\ view' = "select-language"
       ELSE UNCHANGED <<user, view>>
    /\ UNCHANGED <<selectedLanguage, scenario, previousScenarioContext,
                   genCall>>

\* handleLanguageSelect up to its await (lines 67-73). The selector is
\* rendered only for view 'select-language' with a user (lines 111-116).
handleLanguageSelect(lang) ==
    /\ view = "select-language"
    /\ user # <<>>
    /\ genCall = <<>>
    /\ selectedLanguage' = <<lang>>
    /\ view' = "loading-scenario"
    /\ genCall' = <<[languageName |-> lang, userName |-> user[1].name,
                     avoidContext |-> previousScenarioContext]>>
    /\ UNCHANGED <<user, scenario, previousScenarioContext>>

\* The service answers; generateScenario returns and handleLanguageSelect
\* resumes (lines 75-79).
ScenarioReturned(response, parsed) ==
    /\ genCall # <<>>
    /\ LET newScenario == generateScenario(response, parsed)
       IN  /\ scenario' = <<newScenario>>
           /\ previousScenarioContext' = ContextOf(newScenario)
    /\ view' = "chat"
    /\ genCall' = <<>>
    /\ UNCHANGED <<user, selectedLanguage>>

\* A back handler that keeps the language that was selected.
handleBackKeepsLanguage ==
    /\ view = "chat"
    /\ user # <<>> /\ selectedLanguage # <<>> /\ scenario # <<>>
    /\ view' = "select-language"
    /\ scenario' = <<>>
    /\ UNCHANGED <<user, selectedLanguage, previousScenarioContext, genCall>>

\* handleBackToLanguages (lines 82-86); the back button exists only in the
\* chat view (lines 118-125).
handleBackToLanguages ==
    /\ view = "chat"
    /\ user # <<>> /\ selectedLanguage # <<>> /\ scenario # <<>>
    /\ view' = "select-language"
    /\ scenario' = <<>>
    /\ selectedLanguage' = <<>>
    /\ UNCHANGED <<user, previousScenarioContext, genCall>>

Login == \E name \in LoginNames : handleLogin(name) /\ UNCHANGED chatVars
SelectLanguage ==
    \E lang \in Languages : handleLanguageSelect(lang) /\ UNCHANGED chatVars
ScenarioArrives ==
    \E response \in Responses, parsed \in ParsedScenarios :
        ScenarioReturned(response, parsed) /\ UNCHANGED chatVars
BackToLanguages == handleBackToLanguages /\ UNCHANGED chatVars

NextApp == Login \/ SelectLanguage \/ ScenarioArrives \/ BackToLanguages

\* The App's view machine. The chat screen it mounts is modelled by the
\* specifications that start from Init.
SpecApp == InitApp /\ [][NextApp]_vars

(***************************************************************************)
(* ChatInterface: mount (part_001, lines 143-336).                         *)
(***************************************************************************)
ConnectFailedMsg == <<"Failed to connect to AI service">>
InterruptedMsg == <<"Connection interrupted. Check console.">>
MicFailedMsg == <<"Microphone access failed">>

\* The scenarios the chat screen is mounted with.
ChatScenarios == {MarketScenario}

\* The state once the mount effect has run initLiveSession, which has no
\* await of its own: the output context exists (suspended until a user
\* gesture unless the page already has one), playGreeting is suspended at
\* generateSpeech, the greeting is the only message, and ai.live.connect
\* has either returned its pending promise or thrown (lines 330-333).
Mounted(sc) ==
    /\ messages = <<NewMessage(InitMsgId, "model", sc.initialMessage, FALSE)>>
    /\ inputText = <<>>
    /\ isRecording = FALSE
    /\ isConnected = FALSE
    /\ playingMessageId = <<>>
    /\ \/ session = "pending" /\ connectionError = <<>>
       \/ session = "null" /\ connectionError = ConnectFailedMsg
    /\ audioContext \in {"suspended", "running"}
    /\ nextStartTime = 0
    /\ inputContextRef = <<>>
    /\ streamRef = <<>>
    /\ processorRef = <<>>
    /\ isRecordingRef = FALSE
    /\ userAudioChunks = <<>>
    /\ lastUserMessageId = <<>>
    /\ currentInputTrans = <<>>
    /\ currentOutputTrans = <<>>
    /\ cleanup = FALSE
    /\ now = 1
    /\ currentTime = 0
    /\ starts = <<>>
    /\ openContexts = {}
    /\ liveStreams = {}
    /\ processors = {}
    /\ grammarCalls = {}
    /\ pronCalls = <<>>
    /\ greeting = GreetingAt(IF sc.initialMessage = <<>> THEN "none"
                             ELSE "tts", 0)
    /\ scheduled = <<>>
    /\ replays = <<>>
    /\ pendingSends = <<>>
    /\ sent = <<>>
    /\ arrived = NoneArrived

Init ==
    /\ view = "chat"
    /\ user = <<[name |-> <<"a">>]>>
    /\ selectedLanguage = <<"Spanish">>
    /\ genCall = <<>>
    /\ \E sc \in ChatScenarios :
          /\ scenario = <<sc>>
          /\ previousScenarioContext = ContextOf(sc)
          /\ Mounted(sc)

(***************************************************************************)
(* The platform.                                                           *)
(***************************************************************************)
\* Date.now() advances.
Tick ==
    /\ now' = now + 1
    /\ UNCHANGED <<appVars, uiVars, transVars, recVars, playVars, callVars,
                   session, audioContext, cleanup, pendingSends, sent>>

\* What session.send / sendRealtimeInput leaves on the wire: the calls are
\* chained on the session promise, so nothing reaches a session that is
\* not open.
Deliver(log, item) == IF session = "open" THEN Append(log, item) ELSE log

(***************************************************************************)
(* Session callbacks (lines 217-326).                                      *)
(***************************************************************************)
\* The connection opens: onopen (lines 217-220), then the promise resolves;
\* a cleanup that ran meanwhile has chained s.close() on it (line 341).
OnOpen ==
    /\ session = "pending"
    /\ IF cleanup
       THEN session' = "closed" /\ UNCHANGED isConnected
       ELSE session' = "open" /\ isConnected' = TRUE
    /\ UNCHANGED <<appVars, inputText, connectionError, playingMessageId,
                   transVars, recVars, playVars, callVars, audioContext,
                   cleanup, now, pendingSends, sent>>

\* An onerror that reports nothing to the user.
OnErrorSilent ==
    /\ session \in {"pending", "open"}
    /\ session' = IF session = "pending" THEN "failing" ELSE session
    /\ UNCHANGED <<appVars, uiVars, transVars, recVars, playVars, callVars,
                   audioContext, cleanup, now, pendingSends, sent>>

\* onerror (lines 319-322). A connection that fails before it opened fires
\* its error event and then its close event, so the failed open is
\* "failing" until onclose has run; after an error the promise of a
\* connection that never opened stays pending for ever.
OnError ==
    /\ session \in {"pending", "open"}
    /\ session' = IF session = "pending" THEN "failing" ELSE session
    /\ connectionError' = IF cleanup THEN connectionError ELSE InterruptedMsg
    /\ UNCHANGED <<appVars, inputText, isConnected, playingMessageId,
                   transVars, recVars, playVars, callVars, audioContext,
                   cleanup, now, pendingSends, sent>>

\* onclose (lines 323-325): the connection is gone, or never came up.
OnClose ==
    /\ session \in {"failing", "open"}
    /\ session' = IF session = "failing" THEN "failed" ELSE "closed"
    /\ isConnected' = IF cleanup THEN isConnected ELSE FALSE
    /\ UNCHANGED <<appVars, inputText, connectionError, playingMessageId,
                   transVars, recVars, playVars, callVars, audioContext,
                   cleanup, now, pendingSends, sent>>

\* A handleGrammarCheck without its length test.
handleGrammarCheckAnyLength(msgId, text) ==
    IF text = <<>> THEN {}
    ELSE {[msgId |-> msgId, text |-> text]}

\* handleGrammarCheck up to its timer (lines 89-93): the calls it adds.
handleGrammarCheck(msgId, text) ==
    IF text = <<>> \/ Len(text) < MinGrammarLen THEN {}
    ELSE {[msgId |-> msgId, text |-> text]}

\* onmessage (lines 221-318) for one server message carrying an audio
\* fragment of duration d (0: none), partial transcripts (<<>>: none) and
\* the turn-complete flag.
OnMessage(d, outputText, inputText0, turnComplete) ==
    /\ session = "open"
    /\ IF cleanup
       THEN UNCHANGED vars
       ELSE
        LET playAudio == d > 0 /\ audioContext # "null"
            startTime == Max(nextStartTime, currentTime)
            hasText == outputText # <<>> \/ inputText0 # <<>>
            inTrans == currentInputTrans \o inputText0
            outTrans == currentOutputTrans \o outputText
            msgs1 == IF hasText
                     THEN StreamUpdater(messages, outputText, inputText0,
                                        isRecordingRef, now)
                     ELSE messages
            opened == hasText /\ OpensUserTurn(messages, outputText,
                                               inputText0, isRecordingRef)
            msgs2 == IF turnComplete THEN Finalize(msgs1) ELSE msgs1
            userText == Trim(inTrans)
            target == FindLastUserMsg(msgs2, userText)
            checks == IF turnComplete /\ userText # <<>> /\ target # <<>>
                      THEN handleGrammarCheck(target[1], userText)
                      ELSE {}
        IN  /\ IF playAudio
               THEN /\ scheduled' =
                          Append(scheduled, [start |-> startTime, dur |-> d])
                    /\ nextStartTime' = startTime + d
               ELSE UNCHANGED <<scheduled, nextStartTime>>
            /\ messages' = msgs2
            /\ lastUserMessageId' =
                  IF opened THEN <<now>> ELSE lastUserMessageId
            /\ currentInputTrans' = IF turnComplete THEN <<>> ELSE inTrans
            /\ currentOutputTrans' = IF turnComplete THEN <<>> ELSE outTrans
            /\ arrived' = IF turnComplete THEN NoneArrived
                          ELSE [model |-> arrived.model \o outputText,
                                user |-> arrived.user \o inputText0]
            /\ grammarCalls' = grammarCalls \cup checks
            /\ UNCHANGED <<appVars, uiVars, recVars, currentTime, greeting,
                           replays, pronCalls, envVars>>

(***************************************************************************)
(* Typed submission (lines 454-485, form at lines 628-644).                *)
(***************************************************************************)
\* onChange of the input box, which is disabled while recording or while
\* not connected.
ChangeInput(t) ==
    /\ ~cleanup /\ ~isRecording /\ isConnected
    /\ inputText' = t
    /\ UNCHANGED <<appVars, isConnected, connectionError, playingMessageId,
                   transVars, recVars, playVars, callVars, envVars>>

\* handleSendMessage up to its await. The form is submitted from the input
\* box (Enter) or the send button, both disabled while recording or while
\* not connected.
handleSendMessage ==
    /\ ~cleanup /\ ~isRecording /\ isConnected
    /\ IF Trim(inputText) = <<>> \/ ~isConnected
       THEN UNCHANGED vars
       ELSE
        LET text == Trim(inputText)
            newMsgId == now
            checks == handleGrammarCheck(newMsgId, text)
        IN  /\ inputText' = <<>>
            /\ messages' =
                  Append(messages, NewMessage(newMsgId, "user", text, FALSE))
            /\ grammarCalls' = grammarCalls \cup checks
            /\ IF audioContext = "suspended"
               THEN /\ pendingSends' = Append(pendingSends, text)
                    /\ UNCHANGED sent
               ELSE /\ sent' = IF session = "null" THEN sent
                               ELSE Deliver(sent, [kind |-> "text",
                                                   data |-> text])
                    /\ UNCHANGED pendingSends
            /\ UNCHANGED <<appVars, isConnected, connectionError,
                           playingMessageId, lastUserMessageId,
                           currentInputTrans, currentOutputTrans, arrived,
                           recVars, playVars, pronCalls, session,
                           audioContext, cleanup, now>>

\* handleSendMessage after `await audioContextRef.current.resume()`
\* (lines 476-484): resume() resolved, or rejected because the context was
\* closed meanwhile, and then the function ends without sending.
SendResumed ==
    /\ pendingSends # <<>>
    /\ IF audioContext = "closed"
       THEN UNCHANGED <<sent, audioContext>>
       ELSE /\ audioContext' = "running"
            /\ sent' = IF session = "null" THEN sent
                       ELSE Deliver(sent, [kind |-> "text",
                                           data |-> Head(pendingSends)])
    /\ pendingSends' = Tail(pendingSends)
    /\ UNCHANGED <<appVars, uiVars, transVars, recVars, playVars, callVars,
                   session, cleanup, now>>

(***************************************************************************)
(* Grammar validation (lines 93-98).                                       *)
(***************************************************************************)
\* The timer fires and validateGrammar answers.
GrammarDone(call, response) ==
    /\ call \in grammarCalls
    /\ grammarCalls' = grammarCalls \ {call}
    /\ LET correction == validateGrammar(response, call.text)
       IN  messages' =
              IF correction # <<>> /\ ~correction[1].isCorrect
              THEN SetCorrection(messages, call.msgId, correction[1])
              ELSE messages
    /\ UNCHANGED <<appVars, uiVars, lastUserMessageId, currentInputTrans,
                   currentOutputTrans, arrived, recVars, playVars,
                   pronCalls, envVars>>

(***************************************************************************)
(* Recording capture (lines 354-452).                                      *)
(***************************************************************************)
SetStart(k, pc) == [starts EXCEPT ![k] = pc]

\* startRecording up to its first await (lines 354-362). The record button
\* is disabled while not connected (line 618) and calls startRecording only
\* while isRecording is false (lines 446-452). Invocation k creates input
\* context k, microphone stream k and processor k.
startRecording ==
    /\ ~cleanup /\ isConnected /\ ~isRecording
    /\ LET k == Len(starts) + 1
       IN  IF audioContext = "suspended"
           THEN /\ starts' = Append(starts, "resume")
                /\ UNCHANGED <<inputContextRef, openContexts>>
           ELSE /\ starts' = Append(starts, "getUserMedia")
                /\ inputContextRef' = <<k>>
                /\ openContexts' = openContexts \cup {k}
    /\ UNCHANGED <<appVars, uiVars, transVars, isRecording, isRecordingRef,
                   streamRef, processorRef, userAudioChunks, liveStreams,
                   processors, playVars, callVars, envVars>>

\* startRecording after `await audioContextRef.current.resume()` (lines
\* 358-362): resume() rejects on a closed context, which the catch reports.
StartResumed(k) ==
    /\ k \in DOMAIN starts /\ starts[k] = "resume"
    /\ IF audioContext = "closed"
       THEN /\ connectionError' = MicFailedMsg
            /\ starts' = SetStart(k, "done")
            /\ UNCHANGED <<audioContext, inputContextRef, openContexts>>
       ELSE /\ audioContext' = "running"
            /\ inputContextRef' = <<k>>
            /\ openContexts' = openContexts \cup {k}
            /\ starts' = SetStart(k, "getUserMedia")
            /\ UNCHANGED connectionError
    /\ UNCHANGED <<appVars, inputText, isConnected, playingMessageId,
                   transVars, isRecording, isRecordingRef, streamRef,
                   processorRef, userAudioChunks, liveStreams, processors,
                   playVars, callVars, session, cleanup, now, pendingSends,
                   sent>>

\* startRecording after getUserMedia resolved (lines 363-391). The stream
\* is stored first; the pipeline is then built on whatever context
\* inputContextRef holds NOW, and a null ref throws into the catch.
GumResolved(k) ==
    /\ k \in DOMAIN starts /\ starts[k] = "getUserMedia"
    /\ starts' = SetStart(k, "done")
    /\ liveStreams' = liveStreams \cup {k}
    /\ streamRef' = <<k>>
    /\ IF inputContextRef = <<>>
       THEN /\ connectionError' = MicFailedMsg
            /\ UNCHANGED <<userAudioChunks, processors, processorRef,
                           isRecording, isRecordingRef, currentInputTrans>>
       ELSE /\ userAudioChunks' = <<>>
            /\ processors' =
                  processors \cup {[id |-> k, ctx |-> inputContextRef[1]]}
            /\ processorRef' = <<k>>
            /\ isRecording' = TRUE
            /\ isRecordingRef' = TRUE
            /\ currentInputTrans' = <<>>
            /\ UNCHANGED connectionError
    /\ UNCHANGED <<appVars, inputText, isConnected, playingMessageId,
                   messages, lastUserMessageId, currentOutputTrans,
                   arrived, inputContextRef, openContexts, playVars,
                   callVars, envVars>>

\* getUserMedia rejected: the catch (lines 392-395).
GumRejected(k) ==
    /\ k \in DOMAIN starts /\ starts[k] = "getUserMedia"
    /\ starts' = SetStart(k, "done")
    /\ connectionError' = MicFailedMsg
    /\ UNCHANGED <<appVars, inputText, isConnected, playingMessageId,
                   transVars, isRecording, isRecordingRef, inputContextRef,
                   streamRef, processorRef, userAudioChunks, openContexts,
                   liveStreams, processors, playVars, callVars, envVars>>

\* processor.onaudioprocess (lines 371-383) of a connected processor whose
\* context is open.
Capture(p, frame) ==
    /\ p \in processors /\ p.ctx \in openContexts
    /\ userAudioChunks' = Append(userAudioChunks, frame)
    /\ sent' = IF session = "null" THEN sent
               ELSE Deliver(sent, [kind |-> "audio",
                                   data |-> createBlob(frame)])
    /\ UNCHANGED <<appVars, uiVars, transVars, isRecording, isRecordingRef,
                   inputContextRef, streamRef, processorRef, starts,
                   openContexts, liveStreams, processors, playVars,
                   callVars, session, audioContext, cleanup, now,
                   pendingSends>>

\* stopRecording (lines 398-444): everything it assigns. The accumulation
\* buffer is read, never cleared; nothing is produced without a stored
\* user-message id.
stopRecording ==
    /\ processors' = {p \in processors : <<p.id>> # processorRef}
    /\ processorRef' = <<>>
    /\ liveStreams' = {k \in liveStreams : <<k>> # streamRef}
    /\ streamRef' = <<>>
    /\ openContexts' = {k \in openContexts : <<k>> # inputContextRef}
    /\ inputContextRef' = <<>>
    /\ IF userAudioChunks # <<>> /\ lastUserMessageId # <<>>
       THEN LET merged == Flatten(userAudioChunks)
                base64Audio == createBlob(merged)
                targetId == lastUserMessageId[1]
            IN  /\ messages' = SetAudio(messages, targetId, base64Audio)
                /\ pronCalls' = Append(pronCalls,
                      [targetId |-> targetId, audio |-> base64Audio,
                       turns |-> {i \in DOMAIN messages :
                                     messages[i].id = targetId}])
       ELSE UNCHANGED <<messages, pronCalls>>
    /\ isRecording' = FALSE
    /\ isRecordingRef' = FALSE

\* toggleRecording while recording (lines 446-448).
ToggleStop ==
    /\ ~cleanup /\ isConnected /\ isRecording
    /\ stopRecording
    /\ UNCHANGED <<appVars, uiVars, lastUserMessageId, currentInputTrans,
                   currentOutputTrans, arrived, userAudioChunks, starts,
                   playVars, grammarCalls, envVars>>

\* s without its element at position i.
RemoveAt(s, i) == SubSeq(s, 1, i - 1) \o SubSeq(s, i + 1, Len(s))

\* evaluatePronunciation answers call number c of those in flight
\* (lines 433-439).
PronunciationDone(c, response) ==
    /\ c \in DOMAIN pronCalls
    /\ pronCalls' = RemoveAt(pronCalls, c)
    /\ LET feedback == evaluatePronunciation(response, pronCalls[c].audio)
       IN  messages' =
              IF feedback # <<>>
              THEN SetPronunciation(messages, pronCalls[c].targetId,
                                    feedback[1])
              ELSE messages
    /\ UNCHANGED <<appVars, uiVars, lastUserMessageId, currentInputTrans,
                   currentOutputTrans, arrived, recVars, playVars,
                   grammarCalls, envVars>>

(***************************************************************************)
(* Teardown (lines 338-345).                                               *)
(***************************************************************************)
\* The effect's cleanup: set the flag, chain s.close() on the session
\* promise (an open session closes, a pending one closes when it opens),
\* close the output context, stopRecording().
EffectCleanup ==
    /\ ~cleanup
    /\ cleanup' = TRUE
    /\ session' = IF session = "open" THEN "closed" ELSE session
    /\ audioContext' = IF audioContext = "null" THEN "null" ELSE "closed"
    /\ stopRecording
    /\ UNCHANGED <<uiVars, lastUserMessageId, currentInputTrans,
                   currentOutputTrans, arrived, userAudioChunks, starts,
                   playVars, grammarCalls, now, pendingSends, sent>>

\* The back button (line 492): the App leaves the chat view and React
\* unmounts the screen, running the cleanup.
LeaveChat == handleBackToLanguages /\ EffectCleanup

(***************************************************************************)
(* The initial greeting and the output clock (lines 155-181).              *)
(***************************************************************************)
\* What playGreeting does once it holds the decoded buffer (lines 168-175):
\* the source starts at once and the scheduler's cursor is SET to the
\* clock plus the buffer's duration.
GreetingCursor(dur) == currentTime + dur

\* playGreeting after `await generateSpeech(...)` (lines 159-175). audio is
\* <<>> for null, else <<d>> with d the duration of the decoded audio.
GreetingSpeech(audio) ==
    /\ greeting.pc = "tts"
    /\ IF audio = <<>> \/ audioContext = "null" \/ cleanup
       THEN /\ greeting' = GreetingAt("done", 0)
            /\ UNCHANGED nextStartTime
       ELSE IF audioContext = "suspended"
            THEN /\ greeting' = GreetingAt("resume", audio[1])
                 /\ UNCHANGED nextStartTime
            ELSE /\ greeting' = GreetingAt("done", 0)
                 /\ nextStartTime' = GreetingCursor(audio[1])
    /\ UNCHANGED <<appVars, uiVars, transVars, recVars, currentTime,
                   scheduled, replays, callVars, envVars>>

\* playGreeting after `await ctx.resume().catch(() => {})` (lines 165-175):
\* the resume resolved, or rejected on a closed context and was swallowed.
GreetingResumed ==
    /\ greeting.pc = "resume"
    /\ audioContext' = IF audioContext = "closed" THEN "closed" ELSE "running"
    /\ nextStartTime' = GreetingCursor(greeting.dur)
    /\ greeting' = GreetingAt("done", 0)
    /\ UNCHANGED <<appVars, uiVars, transVars, recVars, currentTime,
                   scheduled, replays, callVars, session, cleanup, now,
                   pendingSends, sent>>

\* ctx.currentTime of the output context advances while it is running.
AdvanceClock ==
    /\ audioContext = "running"
    /\ currentTime' = currentTime + 1
    /\ UNCHANGED <<appVars, uiVars, transVars, recVars, nextStartTime,
                   greeting, scheduled, replays, callVars, envVars>>

(***************************************************************************)
(* Replay of a message (handlePlayAudio, lines 102-140). An invocation is  *)
(* a record of `replays` from its start until its audio has ended or it    *)
(* has failed. The duration of a buffer is counted in clock units, one per *)
(* decoded sample for a stored recording.                                  *)
(***************************************************************************)
Replay(msgId, pc, start, dur) ==
    [msgId |-> msgId, pc |-> pc, start |-> start, dur |-> dur]

\* messages.find(m => m.id === msgId) (line 107): the first match.
FindMsg(msgs, msgId) ==
    LET hits == {i \in DOMAIN msgs : msgs[i].id = msgId}
    IN  IF hits = {} THEN <<>>
        ELSE <<msgs[CHOOSE i \in hits : \A j \in hits : i <= j]>>

\* audioBuffer.duration of a stored recording (lines 124, 113-115).
RecordedDur(audioData) == Len(decodeAudioData(decode(audioData)))

\* Lines 119-133 once the audio is at hand: what becomes of the invocation
\* and of the now-playing flag. audio is <<>> for null, else <<d>>.
PlayOrGiveUp(msgId, audio) ==
    IF audio = <<>> \/ audioContext = "null"
    THEN /\ playingMessageId' = <<>>
         /\ replays' = replays
    ELSE /\ playingMessageId' = <<msgId>>
         /\ replays' = Append(replays,
               IF audioContext = "suspended"
               THEN Replay(msgId, "resume", 0, audio[1])
               ELSE Replay(msgId, "playing", currentTime, audio[1]))

\* A handlePlayAudio without its first line.
handlePlayAudioUnguarded(msgId) ==
    /\ ~cleanup
    /\ \E i \in DOMAIN messages :
          messages[i].id = msgId /\ ~messages[i].isStreaming
    /\ LET msg == FindMsg(messages, msgId)[1]
       IN  IF msg.audioData # <<>>
           THEN PlayOrGiveUp(msgId, <<RecordedDur(msg.audioData)>>)
           ELSE /\ playingMessageId' = <<msgId>>
                /\ replays' = Append(replays, Replay(msgId, "tts", 0, 0))
    /\ UNCHANGED <<appVars, inputText, isConnected, connectionError,
                   transVars, recVars, nextStartTime, currentTime,
                   greeting, scheduled, callVars, envVars>>

\* handlePlayAudio up to its first await (lines 102-118), called by the
\* replay button of a message that is not streaming (lines 542-545).
handlePlayAudio(msgId) ==
    /\ ~cleanup
    /\ \E i \in DOMAIN messages :
          messages[i].id = msgId /\ ~messages[i].isStreaming
    /\ IF playingMessageId # <<>>
       THEN UNCHANGED <<playingMessageId, replays>>
       ELSE LET msg == FindMsg(messages, msgId)[1]
            IN  IF msg.audioData # <<>>
                THEN PlayOrGiveUp(msgId, <<RecordedDur(msg.audioData)>>)
                ELSE /\ playingMessageId' = <<msgId>>
                     /\ replays' =
                           Append(replays, Replay(msgId, "tts", 0, 0))
    /\ UNCHANGED <<appVars, inputText, isConnected, connectionError,
                   transVars, recVars, nextStartTime, currentTime,
                   greeting, scheduled, callVars, envVars>>

\* handlePlayAudio after `await generateSpeech(text)` (lines 116-133).
ReplaySpeech(r, audio) ==
    /\ r \in DOMAIN replays /\ replays[r].pc = "tts"
    /\ IF audio = <<>> \/ audioContext = "null"
       THEN /\ playingMessageId' = <<>>
            /\ replays' = RemoveAt(replays, r)
       ELSE /\ replays' = [replays EXCEPT ![r] =
               IF audioContext = "suspended"
               THEN Replay(@.msgId, "resume", 0, audio[1])
               ELSE Replay(@.msgId, "playing", currentTime, audio[1])]
            /\ UNCHANGED playingMessageId
    /\ UNCHANGED <<appVars, inputText, isConnected, connectionError,
                   transVars, recVars, nextStartTime, currentTime,
                   greeting, scheduled, callVars, envVars>>

\* handlePlayAudio after `await ctx.resume().catch(() => {})` (lines
\* 121-131).
ReplayResumed(r) ==
    /\ r \in DOMAIN replays /\ replays[r].pc = "resume"
    /\ audioContext' = IF audioContext = "closed" THEN "closed" ELSE "running"
    /\ replays' = [replays EXCEPT ![r] =
                      Replay(@.msgId, "playing", currentTime, @.dur)]
    /\ UNCHANGED <<appVars, uiVars, transVars, recVars, nextStartTime,
                   currentTime, greeting, scheduled, callVars, session,
                   cleanup, now, pendingSends, sent>>

\* An onended that leaves the now-playing flag as it is.
ReplayEndedSilently(r) ==
    /\ r \in DOMAIN replays /\ replays[r].pc = "playing"
    /\ audioContext = "running"
    /\ currentTime >= replays[r].start + replays[r].dur
    /\ replays' = RemoveAt(replays, r)
    /\ UNCHANGED <<appVars, uiVars, transVars, recVars, nextStartTime,
                   currentTime, greeting, scheduled, callVars, envVars>>

\* source.onended (line 130): the replayed buffer has played to its end.
ReplayEnded(r) ==
    /\ r \in DOMAIN replays /\ replays[r].pc = "playing"
    /\ audioContext = "running"
    /\ currentTime >= replays[r].start + replays[r].dur
    /\ playingMessageId' = <<>>
    /\ replays' = RemoveAt(replays, r)
    /\ UNCHANGED <<appVars, inputText, isConnected, connectionError,
                   transVars, recVars, nextStartTime, currentTime,
                   greeting, scheduled, callVars, envVars>>

(***************************************************************************)
(* Events of the chat screen, with the inputs each one draws and the       *)
(* bounds of the specification they belong to.                             *)
(***************************************************************************)
\* The next state is within the bounds, with at most maxMsgs messages.
Within(maxMsgs) ==
    /\ Len(messages') <= maxMsgs
    /\ \A i \in DOMAIN messages' : Len(messages'[i].text) <= MaxTrans
    /\ Len(currentInputTrans') <= MaxTrans
    /\ Len(currentOutputTrans') <= MaxTrans
    /\ Len(arrived'.user) <= MaxTrans
    /\ Cardinality(grammarCalls') <= MaxCalls
    /\ Len(starts') <= MaxStarts
    /\ Len(userAudioChunks') <= MaxFrames
    /\ Len(sent') + Len(pendingSends') <= MaxSent
    /\ now' <= MaxClock

\* The record button pressed by a user who waits for the microphone prompt:
\* no earlier startRecording is still suspended.
StartWhenIdle ==
    /\ \A k \in DOMAIN starts : starts[k] = "done"
    /\ startRecording

(***************************************************************************)
(* SpecTurns: transcript assembly. Partial transcripts of both roles,      *)
(* turn-complete markers, typed submissions and recording toggles, in any  *)
(* interleaving, on a session that stays up. Server messages carry no      *)
(* audio here (SpecPlayback has the scheduler).                            *)
(***************************************************************************)
ClockTicks == Tick /\ Within(MaxMsgs)
ServerMessage ==
    \E outputText \in OutFrags \cup {<<>>}, inputText0 \in InFrags \cup {<<>>},
       turnComplete \in BOOLEAN :
        /\ outputText # <<>> \/ inputText0 # <<>> \/ turnComplete
        /\ OnMessage(0, outputText, inputText0, turnComplete)
        /\ Within(MaxMsgs)
TypeText == \E t \in InputTexts : ChangeInput(t)
SubmitText == handleSendMessage /\ Within(MaxMsgs)
GrammarAnswers ==
    \E call \in grammarCalls, response \in Responses :
        GrammarDone(call, response)
RecordPressed == StartWhenIdle /\ Within(MaxMsgs)
ResumeForStart == \E k \in DOMAIN starts : StartResumed(k)
MicGranted == \E k \in DOMAIN starts : GumResolved(k)

NextTurns ==
    \/ ClockTicks
    \/ OnOpen
    \/ ServerMessage
    \/ TypeText
    \/ SubmitText
    \/ SendResumed
    \/ GrammarAnswers
    \/ RecordPressed
    \/ ResumeForStart
    \/ MicGranted
    \/ ToggleStop

SpecTurns == Init /\ [][NextTurns]_vars

(***************************************************************************)
(* SpecRecording: recording capture, its payload and its pronunciation     *)
(* call. The user types one-letter texts (too short for a grammar check),  *)
(* so that two recordings, transcripts, a typed turn and the pronunciation *)
(* answers interleave within the bounds.                                   *)
(***************************************************************************)
RecMaxMsgs == 3     \* messages in the list, the greeting included

RecClockTicks == Tick /\ Within(RecMaxMsgs)
RecServerMessage ==
    \E outputText \in OutFrags \cup {<<>>}, inputText0 \in InFrags \cup {<<>>},
       turnComplete \in BOOLEAN :
        /\ outputText # <<>> \/ inputText0 # <<>> \/ turnComplete
        /\ OnMessage(0, outputText, inputText0, turnComplete)
        /\ Within(RecMaxMsgs)
TypeLetter == ChangeInput(<<"x">>)
RecSubmitText == handleSendMessage /\ Within(RecMaxMsgs)
RecRecordPressed == StartWhenIdle /\ Within(RecMaxMsgs)
FrameCaptured ==
    \E p \in processors, frame \in Frames :
        Capture(p, frame) /\ Within(RecMaxMsgs)
PronunciationAnswers ==
    \E c \in DOMAIN pronCalls, response \in Responses :
        PronunciationDone(c, response)

NextRecording ==
    \/ RecClockTicks
    \/ OnOpen
    \/ RecServerMessage
    \/ TypeLetter
    \/ RecSubmitText
    \/ SendResumed
    \/ GrammarAnswers
    \/ RecRecordPressed
    \/ ResumeForStart
    \/ MicGranted
    \/ FrameCaptured
    \/ ToggleStop
    \/ PronunciationAnswers

SpecRecording == Init /\ [][NextRecording]_vars

(***************************************************************************)
(* SpecPlayback: the playback scheduler. Live audio fragments arrive while *)
(* the greeting's text-to-speech call is in flight or done, and the output *)
(* clock advances while the context runs.                                  *)
(***************************************************************************)
MaxTime == 3        \* largest value of the output clock
MaxScheduled == 3   \* live fragments scheduled
MaxDur == 2         \* longest audio buffer, in clock units

Durations == 1..MaxDur

WithinPlayback ==
    /\ currentTime' <= MaxTime
    /\ Len(scheduled') <= MaxScheduled

GreetingArrives ==
    \E audio \in {<<>>} \cup {<<d>> : d \in Durations} : GreetingSpeech(audio)
OutputClockTicks == AdvanceClock /\ WithinPlayback
LiveAudio ==
    \E d \in Durations :
        /\ OnMessage(d, <<>>, <<>>, FALSE)
        /\ WithinPlayback

NextPlayback ==
    \/ OnOpen
    \/ GreetingArrives
    \/ GreetingResumed
    \/ OutputClockTicks
    \/ LiveAudio

SpecPlayback == Init /\ [][NextPlayback]_vars

(***************************************************************************)
(* SpecTeardown: leaving the chat screen at any moment of a conversation   *)
(* with typed turns, recordings and annotation calls, and what the calls   *)
(* and requests still in flight do when they complete afterwards. The      *)
(* agent is silent here.                                                   *)
(***************************************************************************)
UserTranscript ==
    \E inputText0 \in InFrags \cup {<<>>}, turnComplete \in BOOLEAN :
        /\ inputText0 # <<>> \/ turnComplete
        /\ OnMessage(0, <<>>, inputText0, turnComplete)
        /\ Within(RecMaxMsgs)
MicDenied == \E k \in DOMAIN starts : GumRejected(k)

NextTeardown ==
    \/ RecClockTicks
    \/ OnOpen
    \/ UserTranscript
    \/ TypeText
    \/ RecSubmitText
    \/ SendResumed
    \/ GrammarAnswers
    \/ RecRecordPressed
    \/ ResumeForStart
    \/ MicGranted
    \/ MicDenied
    \/ FrameCaptured
    \/ ToggleStop
    \/ PronunciationAnswers
    \/ LeaveChat

SpecTeardown == Init /\ [][NextTeardown]_vars

(***************************************************************************)
(* Claims about the App's view machine (SpecApp).                          *)
(***************************************************************************)
\* The responses with which the scenario-generation call fails: it throws,
\* or it returns no text.
FailedResponses == {"throws", "notext"}

\* C8: if the scenario-generation call fails (throws or returns no text),
\* generateScenario returns the fixed fallback scenario titled "Cafe
\* Encounter", and the step in which handleLanguageSelect resumes takes the
\* App from the loading view to the chat view with that scenario.
C8_FallbackStartsChat ==
    [][\A response \in FailedResponses, parsed \in ParsedScenarios :
          ScenarioReturned(response, parsed) =>
              /\ view = "loading-scenario"
              /\ view' = "chat"
              /\ scenario' = <<FallbackScenario>>
              /\ scenario'[1].title = "Cafe Encounter"]_vars

\* The chat view has been entered with the fallback, which no answer of the
\* service carries: the generation call failed.
C8_Witness ==
    /\ view = "chat"
    /\ genCall = <<>>
    /\ scenario # <<>>
    /\ scenario[1].title = "Cafe Encounter"

(***************************************************************************)
(* Claims about transcript assembly (SpecTurns).                           *)
(***************************************************************************)
Roles == {"user", "model"}

\* The positions of list msgs that hold an in-progress turn of role r.
OpenTurns(msgs, r) ==
    {k \in DOMAIN msgs : msgs[k].role = r /\ msgs[k].isStreaming}

\* A step that handles a server message carrying the turn-complete marker,
\* with or without partial transcripts.
TurnCompleteStep(outputText, inputText0) ==
    /\ ~cleanup
    /\ OnMessage(0, outputText, inputText0, TRUE)

\* C1: when a turn-complete marker is handled, the text of each turn it
\* completes (each turn in progress before the marker, or created by the
\* message carrying it) equals the concatenation, in arrival order, of the
\* partial transcripts that arrived for that turn's role since the previous
\* marker.
C1_TurnTextIsConcatenation ==
    [][\A outputText \in OutFrags \cup {<<>>},
          inputText0 \in InFrags \cup {<<>>} :
          TurnCompleteStep(outputText, inputText0) =>
              \A k \in DOMAIN messages' :
                  (k \notin DOMAIN messages \/ messages[k].isStreaming) =>
                      messages'[k].text =
                          IF messages'[k].role = "model"
                          THEN arrived.model \o outputText
                          ELSE arrived.user \o inputText0]_vars

\* C2: in every reachable state the message list contains at most one
\* in-progress turn per role.
C2_OneOpenTurnPerRole ==
    \A r \in Roles : Cardinality(OpenTurns(messages, r)) <= 1

\* C10: immediately after a turn-complete marker has been handled, no
\* message in the list has the streaming flag set.
C10_TurnCompleteFinalizesAll ==
    [][\A outputText \in OutFrags \cup {<<>>},
          inputText0 \in InFrags \cup {<<>>} :
          TurnCompleteStep(outputText, inputText0) =>
              \A k \in DOMAIN messages' : ~messages'[k].isStreaming]_vars

\* Two agent turns that were in progress at once have both been finalized:
\* nothing is streaming, nothing is buffered, and the list holds two agent
\* turns created by partial transcripts, with a user turn between them.
C10_Witness ==
    /\ \A k \in DOMAIN messages : ~messages[k].isStreaming
    /\ arrived = NoneArrived
    /\ \E i, j, k \in DOMAIN messages :
          /\ i < j /\ j < k
          /\ messages[i].role = "model" /\ messages[i].id # InitMsgId
          /\ messages[j].role = "user"
          /\ messages[k].role = "model"

(***************************************************************************)
(* Claims about recording capture (SpecRecording).                         *)
(***************************************************************************)
\* A step that stops the recording in progress, with at least one captured
\* frame in the accumulation buffer.
StopsWithFrames ==
    /\ isRecording
    /\ ~isRecording'
    /\ userAudioChunks # <<>>

\* The sum of the sample counts of the frames.
RECURSIVE SampleCount(_)
SampleCount(chunks) ==
    IF chunks = <<>> THEN 0
    ELSE Len(Head(chunks)) + SampleCount(Tail(chunks))

\* The encodings of the frames, each encoded on its own, one after another.
RECURSIVE FramesEncoded(_)
FramesEncoded(chunks) ==
    IF chunks = <<>> THEN <<>>
    ELSE createBlob(Head(chunks)) \o FramesEncoded(Tail(chunks))

\* The positions of the user turns of list msgs.
UserTurns(msgs) == {k \in DOMAIN msgs : msgs[k].role = "user"}

\* C6: stopping a recording during which N >= 1 frames were captured yields
\* exactly one encoded payload; its samples are the frames' samples in
\* capture order, and its decoded sample count is the sum of the frames'
\* sample counts.
C6_StopYieldsOnePayload ==
    [][StopsWithFrames =>
          /\ Len(pronCalls') = Len(pronCalls) + 1
          /\ LET payload == pronCalls'[Len(pronCalls')].audio
             IN  /\ payload = FramesEncoded(userAudioChunks)
                 /\ Len(decodeAudioData(decode(payload))) =
                        SampleCount(userAudioChunks)]_vars

\* C7: when a recording is stopped, its encoded payload is attached to the
\* most recently opened user turn of the message list, whatever recordings,
\* typed submissions and transcripts came before.
C7_PayloadOnLatestUserTurn ==
    [][(StopsWithFrames /\ UserTurns(messages) # {}) =>
          LET latest == CHOOSE k \in UserTurns(messages) :
                            \A j \in UserTurns(messages) : j <= k
          IN  messages'[latest].audioData =
                  FramesEncoded(userAudioChunks)]_vars

\* C3: a pronunciation result that resolves after its originating turn has
\* been finalized is attached to exactly the turns that received that
\* recording's payload, and the pronunciation of every other message of the
\* list is left as it was.
C3_ResultOnPayloadTurnOnly ==
    [][\A c \in DOMAIN pronCalls, response \in {"negative", "positive"} :
          (/\ PronunciationDone(c, response)
           /\ \A k \in pronCalls[c].turns : ~messages[k].isStreaming) =>
              \A k \in DOMAIN messages' :
                  IF k \in pronCalls[c].turns
                  THEN messages'[k].pronunciation =
                           evaluatePronunciation(response,
                                                 pronCalls[c].audio)
                  ELSE messages'[k].pronunciation =
                           messages[k].pronunciation]_vars

(***************************************************************************)
(* Claims about the playback scheduler (SpecPlayback).                     *)
(***************************************************************************)
\* C5: each live fragment is started at max(cursor, output clock) and the
\* cursor is then set to that start plus the fragment's duration; each
\* fragment starts no earlier than the previous live fragment's start plus
\* its duration (start times do not decrease, no two live fragments
\* overlap).
C5_LiveFragmentsDoNotOverlap ==
    [][Len(scheduled') = Len(scheduled) + 1 =>
          LET this == scheduled'[Len(scheduled')]
          IN  /\ this.start = Max(nextStartTime, currentTime)
              /\ nextStartTime' = this.start + this.dur
              /\ scheduled # <<>> =>
                    LET last == scheduled[Len(scheduled)]
                    IN  /\ this.start >= last.start
                        /\ this.start >= last.start + last.dur]_vars

(***************************************************************************)
(* Claims about teardown (SpecTeardown).                                   *)
(***************************************************************************)
\* A step in which a grammar-validation or pronunciation call completes.
AnnotationCompletes ==
    \/ \E call \in grammarCalls, response \in Responses :
          GrammarDone(call, response)
    \/ \E c \in DOMAIN pronCalls, response \in Responses :
          PronunciationDone(c, response)

\* C4: after the chat screen has been torn down, the completion of a
\* grammar-validation or pronunciation call (in flight at teardown, or
\* started by teardown itself) changes neither the message list nor any
\* other state of the screen.
C4_NoMutationAfterTeardown ==
    [][(cleanup /\ AnnotationCompletes) =>
          UNCHANGED <<messages, inputText, isRecording, isConnected,
                      connectionError, playingMessageId>>]_vars

\* Nothing started before the exit is still suspended: no startRecording
\* invocation, and not the opening of the session.
NothingInFlight ==
    /\ \A k \in DOMAIN starts : starts[k] = "done"
    /\ session \notin {"pending", "failing"}

\* C9: once the chat screen has been left and what was in flight at the
\* exit has run, the screen is fully torn down: recording is stopped, the
\* microphone released and the capture pipeline gone, the output audio
\* context closed and the streaming session closed.
C9_LeftScreenIsTornDown ==
    (cleanup /\ NothingInFlight) =>
        /\ ~isRecording /\ ~isRecordingRef
        /\ liveStreams = {} /\ streamRef = <<>>
        /\ processors = {} /\ openContexts = {}
        /\ audioContext \in {"closed", "null"}
        /\ session \in {"closed", "failed", "null"}

(***************************************************************************)
(* Claims about the grammar trigger and user transcripts (SpecTurns).      *)
(***************************************************************************)
\* s starts with p.
StartsWith(s, p) == Len(p) <= Len(s) /\ SubSeq(s, 1, Len(p)) = p

\* The largest element of a non-empty set of positions.
Latest(positions) == CHOOSE k \in positions : \A j \in positions : j <= k

\* C11: on a turn-complete marker with a non-blank completed user
\* transcript, grammar validation is triggered for that (trimmed) text and
\* targeted at the most recent user turn whose text starts with the
\* transcript's opening characters.
C11_GrammarTargetsLatestMatchingTurn ==
    [][\A outputText \in OutFrags \cup {<<>>},
          inputText0 \in InFrags \cup {<<>>} :
          (/\ TurnCompleteStep(outputText, inputText0)
           /\ Trim(currentInputTrans \o inputText0) # <<>>) =>
              LET userText == Trim(currentInputTrans \o inputText0)
                  opening == Substring0(userText, PrefixLen)
                  matching == {k \in UserTurns(messages') :
                                  StartsWith(messages'[k].text, opening)}
              IN  matching # {} =>
                      [msgId |-> messages'[Latest(matching)].id,
                       text |-> userText] \in grammarCalls']_vars

\* C12: a partial user transcript that arrives while not recording neither
\* creates a user turn nor appends to one; while recording it is appended
\* to the open user turn, or creates a user turn at the end of the list if
\* none is open.
C12_UserFragmentOnlyWhileRecording ==
    [][\A outputText \in OutFrags \cup {<<>>}, inputText0 \in InFrags,
          turnComplete \in BOOLEAN :
          (~cleanup /\ OnMessage(0, outputText, inputText0, turnComplete)) =>
              IF ~isRecordingRef
              THEN /\ UserTurns(messages') = UserTurns(messages)
                   /\ \A k \in UserTurns(messages) :
                          messages'[k].text = messages[k].text
              ELSE IF OpenTurns(messages, "user") # {}
                   THEN /\ UserTurns(messages') = UserTurns(messages)
                        /\ \E k \in OpenTurns(messages, "user") :
                              messages'[k].text =
                                  messages[k].text \o inputText0
                   ELSE /\ UserTurns(messages') =
                              UserTurns(messages) \cup {Len(messages')}
                        /\ Len(messages') > Len(messages)
                        /\ messages'[Len(messages')].text = inputText0]_vars

(***************************************************************************)
(* Claims about the playback cursor (SpecPlayback).                        *)
(***************************************************************************)
\* C20: the playback cursor advances monotonically: no step, the playing
\* of the initial greeting included, sets it to a smaller value than it
\* held before.
C20_CursorNeverGoesBack ==
    [][nextStartTime' >= nextStartTime]_vars

(***************************************************************************)
(* SpecToggle: the record button pressed at any moment, also while an      *)
(* earlier microphone permission request is still pending (the handler     *)
(* starts a recording whenever isRecording is false), with permissions     *)
(* granted or denied in any order and frames captured in between.          *)
(***************************************************************************)
TogglePressed == startRecording /\ Within(RecMaxMsgs)

NextToggle ==
    \/ OnOpen
    \/ TogglePressed
    \/ ResumeForStart
    \/ MicGranted
    \/ MicDenied
    \/ FrameCaptured
    \/ ToggleStop

SpecToggle == Init /\ [][NextToggle]_vars

\* A step that stops a recording: only stopRecording clears isRecording.
RecordingStops == isRecording /\ ~isRecording'

\* No startRecording invocation is suspended at an await.
NoStartPending == \A k \in DOMAIN starts : starts[k] = "done"

\* Frames can still be captured: a connected processor on an open context.
CapturingProcessors == {p \in processors : p.ctx \in openContexts}

\* C16: when a recording is stopped the capture pipeline is gone and the
\* microphone is released, so that no frame is captured until the next
\* start, whatever the earlier interleaving of record-button presses and
\* permission requests was (here: none of them still pending at the stop).
C16_StopReleasesMicrophone ==
    [][(RecordingStops /\ NoStartPending) =>
          (liveStreams' = {} /\ CapturingProcessors' = {})]_vars

(***************************************************************************)
(* SpecSession: the live connection opening, failing to open, reporting an *)
(* error or closing at any moment, while the user types, submits and       *)
(* records. The agent is silent here.                                      *)
(***************************************************************************)
NextSession ==
    \/ OnOpen
    \/ OnError
    \/ OnClose
    \/ TypeText
    \/ RecSubmitText
    \/ SendResumed
    \/ RecRecordPressed
    \/ ResumeForStart
    \/ MicGranted
    \/ FrameCaptured
    \/ ToggleStop

SpecSession == Init /\ [][NextSession]_vars

\* The session never opened: connect threw, or the pending connection
\* failed (its error event has fired, its close event follows).
FailedOpen == {"null", "failing", "failed"}

AudioItem(frame) == [kind |-> "audio", data |-> createBlob(frame)]

\* The item a typed turn is sent as (parts: [{text}], turnComplete: true).
TextItem(text) == [kind |-> "text", data |-> text]

\* C18: while recording, every captured frame is appended to the
\* accumulation buffer and transmitted to the session, in the same order.
C18_FramesAppendedAndTransmitted ==
    [][\A p \in processors, frame \in Frames :
          (isRecording /\ Capture(p, frame)) =>
              /\ userAudioChunks' = Append(userAudioChunks, frame)
              /\ sent' = Append(sent, AudioItem(frame))]_vars

\* C19: a non-blank submission made while connected appends exactly one
\* finalized user turn holding the trimmed text and sends exactly one
\* complete text turn with that text: at once, or as soon as the await of
\* the output context's resume() is over.
C19_SubmissionAppendsAndSends ==
    [][/\ (handleSendMessage /\ Trim(inputText) # <<>> /\ isConnected) =>
             /\ Len(messages') = Len(messages) + 1
             /\ SubSeq(messages', 1, Len(messages)) = messages
             /\ messages'[Len(messages')].role = "user"
             /\ messages'[Len(messages')].text = Trim(inputText)
             /\ ~messages'[Len(messages')].isStreaming
             /\ \/ /\ sent' = Append(sent, TextItem(Trim(inputText)))
                   /\ pendingSends' = pendingSends
                \/ /\ pendingSends' = Append(pendingSends, Trim(inputText))
                   /\ sent' = sent
       /\ SendResumed =>
             sent' = Append(sent, TextItem(Head(pendingSends)))]_vars

(***************************************************************************)
(* SpecReplay: replaying the greeting or a recorded user turn while live   *)
(* audio fragments arrive and the output clock runs. The user speaks one   *)
(* turn at most and types nothing.                                         *)
(***************************************************************************)
ReplayMaxMsgs == 2  \* messages in the list, the greeting included
MaxLive == 1        \* live fragments scheduled

WithinReplay ==
    /\ Within(ReplayMaxMsgs)
    /\ currentTime' <= MaxTime
    /\ Len(scheduled') <= MaxLive

ReplayClockTicks == AdvanceClock /\ WithinReplay
ReplayLiveAudio ==
    \E d \in Durations : OnMessage(d, <<>>, <<>>, FALSE) /\ WithinReplay
ReplayUserTranscript ==
    \E inputText0 \in InFrags \cup {<<>>}, turnComplete \in BOOLEAN :
        /\ inputText0 # <<>> \/ turnComplete
        /\ OnMessage(0, <<>>, inputText0, turnComplete)
        /\ WithinReplay
ReplayRecordPressed == StartWhenIdle /\ WithinReplay
ReplayFrameCaptured ==
    \E p \in processors, frame \in Frames : Capture(p, frame) /\ WithinReplay
ReplayRequested ==
    \E i \in DOMAIN messages : handlePlayAudio(messages[i].id)
ReplaySpeechArrives ==
    \E r \in DOMAIN replays, audio \in {<<>>} \cup {<<d>> : d \in Durations} :
        ReplaySpeech(r, audio)
ReplayResumes == \E r \in DOMAIN replays : ReplayResumed(r)
ReplayEnds == \E r \in DOMAIN replays : ReplayEnded(r)

NextReplay ==
    \/ OnOpen
    \/ ReplayClockTicks
    \/ ReplayLiveAudio
    \/ ReplayUserTranscript
    \/ ReplayRecordPressed
    \/ ResumeForStart
    \/ MicGranted
    \/ ReplayFrameCaptured
    \/ ToggleStop
    \/ ReplayRequested
    \/ ReplaySpeechArrives
    \/ ReplayResumes
    \/ ReplayEnds

SpecReplay == Init /\ [][NextReplay]_vars

\* Messages whose replay button is shown (lines 542-545).
Replayable == {i \in DOMAIN messages : ~messages[i].isStreaming}

\* C13: at most one replay is active at a time. From the request until the
\* replay's audio has ended or it has failed the now-playing flag holds
\* its message, and while the flag is set no step starts another replay.
C13_OneReplayAtATime ==
    [][/\ Len(replays') <= 1
       /\ replays' # <<>> => playingMessageId' = <<replays'[1].msgId>>
       /\ playingMessageId # <<>> => Len(replays') <= Len(replays)]_vars

\* A replay is sounding while a second message has its replay button on
\* the screen.
C13_Witness ==
    /\ playingMessageId # <<>>
    /\ replays # <<>> /\ replays[1].pc = "playing"
    /\ audioContext = "running"
    /\ \E i \in Replayable : <<messages[i].id>> # playingMessageId

\* The half-open intervals [s1, s1 + d1) and [s2, s2 + d2) share a moment.
Overlap(s1, d1, s2, d2) == s1 < s2 + d2 /\ s2 < s1 + d1

\* C14: replayed audio never plays at the same time as a scheduled live
\* audio fragment.
C14_ReplayNeverOverLiveAudio ==
    \A r \in DOMAIN replays, f \in DOMAIN scheduled :
        replays[r].pc = "playing" =>
            ~Overlap(replays[r].start, replays[r].dur,
                     scheduled[f].start, scheduled[f].dur)

(***************************************************************************)
(* SpecAnnotate: the background calls and their failures. The user speaks  *)
(* recorded turns (transcripts arrive, the payload is attached), replays   *)
(* messages, and the grammar, pronunciation and speech-synthesis calls     *)
(* answer or fail in any order. The user types nothing.                    *)
(***************************************************************************)
NextAnnotate ==
    \/ OnOpen
    \/ ReplayUserTranscript
    \/ ReplayRecordPressed
    \/ ResumeForStart
    \/ MicGranted
    \/ ReplayFrameCaptured
    \/ ToggleStop
    \/ GrammarAnswers
    \/ PronunciationAnswers
    \/ GreetingArrives
    \/ GreetingResumed
    \/ ReplayRequested
    \/ ReplaySpeechArrives
    \/ ReplayResumes

SpecAnnotate == Init /\ [][NextAnnotate]_vars

\* The answers with which a call yields no result: the call throws, the
\* response has no text, or its text is not JSON (all caught, null).
NoResult == {"throws", "notext", "malformed"}

\* A step in which a background call completes without a result.
CallFails ==
    \/ \E call \in grammarCalls, response \in NoResult :
          GrammarDone(call, response)
    \/ \E c \in DOMAIN pronCalls, response \in NoResult :
          PronunciationDone(c, response)
    \/ GreetingSpeech(<<>>)
    \/ \E r \in DOMAIN replays : ReplaySpeech(r, <<>>)

\* C17: when a grammar-validation, pronunciation or speech-synthesis call
\* yields no result, no correction or score is attached to any message, no
\* error is shown, and the message list and the connection state stay as
\* they were.
C17_FailedCallsAreSilent ==
    [][CallFails =>
          /\ messages' = messages
          /\ connectionError' = connectionError
          /\ isConnected' = isConnected
          /\ session' = session]_vars

\* A recorded user turn carries its payload and nothing else although a
\* background call was made for it and has completed, while the session is
\* still connected and no error is shown.
C17_Witness ==
    /\ pronCalls = <<>> /\ grammarCalls = {}
    /\ isConnected /\ connectionError = <<>>
    /\ greeting.pc = "done" /\ nextStartTime = 0
    /\ \E i \in DOMAIN messages :
          /\ messages[i].audioData # <<>>
          /\ messages[i].pronunciation = <<>>
          /\ messages[i].correction = <<>>

(***************************************************************************)
(* Claims about the recording buffer, message ids and the recorder while   *)
(* the session closes.                                                     *)
(***************************************************************************)
\* The effect's cleanup runs in this step.
TeardownStep == ~cleanup /\ cleanup'

\* C21: the recording buffer is discarded once a recording has been
\* stopped and its payload produced, so the stop performed at screen
\* teardown, when no recording is active, encodes nothing, attaches
\* nothing and submits no pronunciation call.
C21_StoppedBufferIsNotReused ==
    [][(TeardownStep /\ ~isRecording) =>
          (pronCalls' = pronCalls /\ messages' = messages)]_vars

\* C25: no two messages of the list share an id.
C25_MessageIdsAreUnique ==
    \A i, j \in DOMAIN messages : i # j => messages[i].id # messages[j].id

\* C27: whenever a recording is active the session is connected, so the
\* record control that stops it is enabled.
C27_RecordingImpliesConnected == isRecording => isConnected

\* C22: starting a recording begins a new user turn. The first user
\* fragment that arrives in a recording (the transcript buffer, emptied by
\* the start, is still empty) opens a user turn of its own instead of being
\* appended to a turn that an earlier recording opened.
C22_NewRecordingOpensNewTurn ==
    [][\A inputText0 \in InFrags, turnComplete \in BOOLEAN :
          (/\ ~cleanup /\ isRecordingRef /\ currentInputTrans = <<>>
           /\ OnMessage(0, <<>>, inputText0, turnComplete)) =>
              /\ Len(messages') = Len(messages) + 1
              /\ SubSeq(messages', 1, Len(messages)) =
                    IF turnComplete THEN Finalize(messages) ELSE messages
              /\ messages'[Len(messages')].role = "user"
              /\ messages'[Len(messages')].text = inputText0]_vars

\* C23: a failed microphone acquisition is reported and non-fatal. The
\* step in which getUserMedia rejects sets the status message and leaves
\* the recorder idle (not recording, no microphone stream held, no
\* processor capturing), with the message list and the session connection
\* unchanged.
C23_MicFailureLeavesRecorderIdle ==
    [][\A k \in DOMAIN starts :
          GumRejected(k) =>
              /\ connectionError' = MicFailedMsg
              /\ ~isRecording' /\ ~isRecordingRef'
              /\ liveStreams' = {} /\ CapturingProcessors' = {}
              /\ messages' = messages
              /\ isConnected' = isConnected /\ session' = session]_vars

(***************************************************************************)
(* Claims about the message list as a whole (SpecRecording).               *)
(***************************************************************************)
\* C26: the message list is append-only and finalized turns keep their
\* content. No step removes or reorders messages (every message keeps its
\* position, id and role, and a turn in progress only grows), the greeting
\* stays first, and once a message is not streaming its text never changes
\* and it never becomes streaming again.
C26_ListIsAppendOnly ==
    [][/\ Len(messages') >= Len(messages)
       /\ \A i \in DOMAIN messages :
             /\ messages'[i].id = messages[i].id
             /\ messages'[i].role = messages[i].role
             /\ StartsWith(messages'[i].text, messages[i].text)
             /\ ~messages[i].isStreaming =>
                   /\ messages'[i].text = messages[i].text
                   /\ ~messages'[i].isStreaming
       /\ messages'[1].id = InitMsgId
       /\ messages'[1].role = "model"]_vars

\* A finalized agent turn is followed by a user turn in progress.
C26_Witness ==
    /\ Len(messages) = RecMaxMsgs
    /\ messages[2].role = "model" /\ ~messages[2].isStreaming
    /\ messages[3].role = "user" /\ messages[3].isStreaming

(***************************************************************************)
(* Claims about grammar corrections (SpecTurns).                           *)
(***************************************************************************)
\* The messages of msgs that carry a correction.
Corrected(msgs) == {i \in DOMAIN msgs : msgs[i].correction # <<>>}

\* C30: a correction is attached to a message only when validateGrammar
\* returned a verdict of not correct for a text of at least 2 characters.
\* No call is made for a shorter text, and a correct verdict or a failed
\* call leaves every message as it was.
C30_CorrectionOnlyForNegativeVerdict ==
    [][/\ \A call \in grammarCalls' : Len(call.text) >= MinGrammarLen
       /\ \A i \in DOMAIN messages :
             messages'[i].correction # messages[i].correction =>
                \E call \in grammarCalls :
                    /\ GrammarDone(call, "negative")
                    /\ call.msgId = messages[i].id
                    /\ Len(call.text) >= MinGrammarLen
       /\ \A call \in grammarCalls, response \in Responses \ {"negative"} :
             GrammarDone(call, response) => messages' = messages]_vars

\* A typed turn carries the correction of a not-correct verdict.
C30_Witness ==
    \E i \in Corrected(messages) :
        /\ messages[i].role = "user"
        /\ Len(messages[i].text) >= MinGrammarLen
        /\ ~messages[i].correction[1].isCorrect

(***************************************************************************)
(* SpecReplayTurns: replaying any finalized message of a conversation      *)
(* with agent turns and recorded user turns, some of them created within   *)
(* the same millisecond. The user types nothing and the annotation calls   *)
(* stay unanswered.                                                        *)
(***************************************************************************)
NextReplayTurns ==
    \/ RecClockTicks
    \/ OnOpen
    \/ RecServerMessage
    \/ RecRecordPressed
    \/ ResumeForStart
    \/ MicGranted
    \/ FrameCaptured
    \/ ToggleStop
    \/ ReplayRequested
    \/ ReplaySpeechArrives
    \/ ReplayResumes

SpecReplayTurns == Init /\ [][NextReplayTurns]_vars

\* The replay button of message i starts a replay in this step.
ReplayStartsFor(i) ==
    /\ i \in Replayable
    /\ playingMessageId = <<>>
    /\ handlePlayAudio(messages[i].id)

\* C24: replaying a message uses the message's original recorded audio
\* whenever it has one, and requests synthesized speech from the message
\* text only when it has none.
C24_ReplayPrefersRecordedAudio ==
    [][\A i \in DOMAIN messages :
          ReplayStartsFor(i) =>
              IF messages[i].audioData # <<>>
              THEN /\ replays' # <<>>
                   /\ replays'[Len(replays')].pc \in {"playing", "resume"}
                   /\ replays'[Len(replays')].dur =
                         RecordedDur(messages[i].audioData)
              ELSE /\ replays' # <<>>
                   /\ replays'[Len(replays')].pc = "tts"]_vars

(***************************************************************************)
(* SpecReplayFair: replays of the greeting on a screen that stays mounted, *)
(* with fairness: a speech-synthesis call in flight answers, an awaited    *)
(* resume() settles, the output clock advances while the context runs and  *)
(* a buffer that has played to its end fires onended. Replays are          *)
(* requested before the clock reaches MaxTime; the clock runs on until     *)
(* the last of them has ended.                                             *)
(***************************************************************************)
\* A replay is sounding and has not reached its end.
ReplaySounding ==
    \E r \in DOMAIN replays :
        /\ replays[r].pc = "playing"
        /\ currentTime < replays[r].start + replays[r].dur

FairClockTicks ==
    /\ currentTime < MaxTime \/ ReplaySounding
    /\ AdvanceClock
FairReplayRequested == currentTime < MaxTime /\ ReplayRequested

NextReplayFair ==
    \/ OnOpen
    \/ GreetingArrives
    \/ GreetingResumed
    \/ ReplayLiveAudio
    \/ FairClockTicks
    \/ FairReplayRequested
    \/ ReplaySpeechArrives
    \/ ReplayResumes
    \/ ReplayEnds

SpecReplayFair ==
    /\ Init /\ [][NextReplayFair]_vars
    /\ WF_vars(FairClockTicks)
    /\ WF_vars(ReplaySpeechArrives)
    /\ WF_vars(ReplayResumes)
    /\ WF_vars(ReplayEnds)

\* C28: every replay request that sets the now-playing flag is followed by
\* a state in which the flag is cleared, so the replay buttons do not stay
\* disabled for ever.
C28_FlagEventuallyClears ==
    (playingMessageId # <<>>) ~> (playingMessageId = <<>>)

\* A replay of the greeting is sounding with the flag set, and its buffer
\* ends after the clock has passed MaxTime.
C28_Witness ==
    /\ playingMessageId = <<InitMsgId>>
    /\ replays # <<>> /\ replays[1].pc = "playing"
    /\ replays[1].start + replays[1].dur > MaxTime

(***************************************************************************)
(* SpecSpoken: spoken turns only. Recordings are started and stopped while *)
(* user transcripts and turn-complete markers arrive and the grammar calls *)
(* answer; a turn may grow to LongTrans characters. Nothing is typed, no   *)
(* frame is captured and the agent is silent.                              *)
(***************************************************************************)
LongTrans == 3      \* characters of a user turn in SpecSpoken

WithinSpoken ==
    /\ Len(messages') <= ReplayMaxMsgs
    /\ \A i \in DOMAIN messages' : Len(messages'[i].text) <= LongTrans
    /\ Len(currentInputTrans') <= LongTrans
    /\ Len(arrived'.user) <= LongTrans
    /\ Cardinality(grammarCalls') <= MaxCalls
    /\ Len(starts') <= MaxStarts + 1

SpokenTranscript ==
    \E inputText0 \in InFrags \cup {<<>>}, turnComplete \in BOOLEAN :
        /\ inputText0 # <<>> \/ turnComplete
        /\ OnMessage(0, <<>>, inputText0, turnComplete)
        /\ WithinSpoken
SpokenRecordPressed == StartWhenIdle /\ WithinSpoken

NextSpoken ==
    \/ OnOpen
    \/ SpokenTranscript
    \/ SpokenRecordPressed
    \/ ResumeForStart
    \/ MicGranted
    \/ ToggleStop
    \/ GrammarAnswers

SpecSpoken == Init /\ [][NextSpoken]_vars

\* C29: the text submitted for grammar validation at a turn-complete
\* marker equals the text of the user turn that the call is made for, the
\* turn its correction will be attached to.
C29_ValidatedTextIsTurnText ==
    [][\A inputText0 \in InFrags \cup {<<>>} :
          TurnCompleteStep(<<>>, inputText0) =>
              \A call \in grammarCalls' \ grammarCalls :
                  \A i \in UserTurns(messages') :
                      messages'[i].id = call.msgId =>
                          messages'[i].text = call.text]_vars

(***************************************************************************)
(* The App's view machine (types.ts).                                      *)
(***************************************************************************)
\* The router mounts ChatInterface (types.ts, lines 118-125).
ChatShown ==
    /\ view = "chat"
    /\ user # <<>> /\ selectedLanguage # <<>> /\ scenario # <<>>

\* C31: the view is 'chat' only with user, selected language and scenario
\* all set, so the chat screen is shown exactly then; every step that leaves
\* the chat view goes to language selection with scenario and selected
\* language cleared and the user kept; and every scenario-generation
\* request is issued with a user logged in, under that user's name.
C31_ViewMachine ==
    /\ [](view = "chat" => ChatShown)
    /\ [][/\ (view = "chat" /\ view' # "chat") =>
                /\ view' = "select-language"
                /\ scenario' = <<>> /\ selectedLanguage' = <<>>
                /\ user' = user /\ user # <<>>
          /\ (genCall' # <<>> /\ genCall' # genCall) =>
                /\ user # <<>>
                /\ genCall'[1].userName = user[1].name]_vars

\* The user went back from a chat: language selection is shown again, with
\* no language and no scenario, after a scenario had been generated.
C31_Witness ==
    /\ view = "select-language" /\ user # <<>>
    /\ selectedLanguage = <<>> /\ scenario = <<>>
    /\ previousScenarioContext # <<>>

(***************************************************************************)
(* The outbound PCM encoding (part_001, createBlob).                       *)
(***************************************************************************)
\* The 16-bit value n is not on the other side of zero than the sample u.
SameSign(u, n) == (u > 0 => n >= 0) /\ (u < 0 => n <= 0)

\* The samples of a frame lie in [-1.0, 1.0].
InRange(frame) ==
    \A i \in DOMAIN frame : -SampleUnit <= frame[i] /\ frame[i] <= SampleUnit

\* C32: whenever a captured frame whose samples lie in [-1.0, 1.0], full
\* scale +1.0 included, is encoded to 16-bit PCM, every encoded 16-bit
\* value has the sign of its sample: sample * 32768 does not wrap around
\* modulo 2^16.
C32_EncodingKeepsSign ==
    [][\A p \in processors, frame \in Frames :
          (InRange(frame) /\ Capture(p, frame)) =>
              LET int16 == Int16View(decode(createBlob(frame)))
              IN  /\ Len(int16) = Len(frame)
                  /\ \A i \in DOMAIN frame : SameSign(frame[i], int16[i])]_vars

====
